---- MODULE Spec2Model ----
(***************************************************************************)
(* Referee of iterated two-player games (tjudge-cli).                      *)
(*                                                                         *)
(* The model follows Game::round of the two games under src/games and of   *)
(* the older generic Prisoner's Dilemma in src/dilemma.rs.  Every call of  *)
(* Player::ask / Player::say is two steps: the referee issues the call     *)
(* (it becomes a member of `pending`), and the player returns from it      *)
(* (the call leaves `pending`, its outcome is stored in `ret` and appended *)
(* to `log`).  Lines are sequences of one-character strings.               *)
(***************************************************************************)
EXTENDS Integers, Sequences, FiniteSets, TLC

\* ------------------------------------------------------------------ bounds
MaxIters == 2
MaxEnergy == 2

\* --------------------------------------------------------------- constants
\* Score = i32
I32Max == 2147483647
I32Min == (-2147483647) - 1

Sides == {"L", "R"}
Other(side) == IF side = "L" THEN "R" ELSE "L"

\* ------------------------------------------------------------- text lines
DigitChars == <<"0", "1", "2", "3", "4", "5", "6", "7", "8", "9">>
IsDigit(c) == \E d \in 1..10 : DigitChars[d] = c
DigitVal(c) == (CHOOSE d \in 1..10 : DigitChars[d] = c) - 1

COOPERATE == <<"C", "O", "O", "P", "E", "R", "A", "T", "E">>
DEFECT == <<"D", "E", "F", "E", "C", "T">>
BETRAY == <<"B", "E", "T", "R", "A", "Y">>
\* the reply of the test player of dilemma_invalid_output
Sth == <<"S", "t", "h">>
\* u32::MAX as decimal digits, the largest value parse::<u32> accepts
U32MaxDigits == <<"4", "2", "9", "4", "9", "6", "7", "2", "9", "5">>

\* format!("{}", n) of an unsigned integer: its decimal digits
RECURSIVE ToStr(_)
ToStr(n) ==
    IF n < 10 THEN <<DigitChars[n + 1]>>
    ELSE ToStr(n \div 10) \o <<DigitChars[(n % 10) + 1]>>

RECURSIVE StripZeros(_)
StripZeros(s) ==
    IF Len(s) > 1 /\ s[1] = "0" THEN StripZeros(Tail(s)) ELSE s

\* a and b are digit sequences of equal length: a > b as numbers
RECURSIVE DigitsGreater(_, _)
DigitsGreater(a, b) ==
    IF a = <<>> THEN FALSE
    ELSE IF DigitVal(a[1]) # DigitVal(b[1]) THEN DigitVal(a[1]) > DigitVal(b[1])
    ELSE DigitsGreater(Tail(a), Tail(b))

RECURSIVE DigitsValue(_)
DigitsValue(s) ==
    IF s = <<>> THEN 0
    ELSE DigitsValue(SubSeq(s, 1, Len(s) - 1)) * 10 + DigitVal(s[Len(s)])

ParseErr == -1

\* str::parse::<u32>(): an optional leading '+', then one or more decimal
\* digits, value at most u32::MAX; anything else is an error (ParseErr).
ParseU32(s) ==
    LET digits == IF s # <<>> /\ s[1] = "+" THEN Tail(s) ELSE s
        sig == StripZeros(digits)
    IN  IF digits = <<>> THEN ParseErr
        ELSE IF \E k \in 1..Len(digits) : ~IsDigit(digits[k]) THEN ParseErr
        ELSE IF Len(sig) > Len(U32MaxDigits) THEN ParseErr
        ELSE IF Len(sig) = Len(U32MaxDigits) /\ DigitsGreater(sig, U32MaxDigits)
             THEN ParseErr
        ELSE DigitsValue(sig)

\* ------------------------------------------- Decision (src/games/dilemma.rs)
\* mutant: every line other than COOPERATE is taken as a defection
from_str_Lenient(s) == IF s = COOPERATE THEN "Cooperate" ELSE "Defect"

from_str(s) ==
    IF s = COOPERATE THEN "Cooperate"
    ELSE IF s = DEFECT THEN "Defect"
    ELSE "Err"

to_str(d) == IF d = "Cooperate" THEN COOPERATE ELSE DEFECT

\* ------------------------------------------------ Action (src/dilemma.rs)
Action_from_str(s) ==
    IF s = COOPERATE THEN "Cooperate"
    ELSE IF s = BETRAY THEN "Betray"
    ELSE "Err"

Action_to_str(a) == IF a = "Cooperate" THEN COOPERATE ELSE BETRAY

\* ------------------------------------------------------ Score arithmetic
\* a + b on i32: the exact sum when it fits, otherwise the overflow is
\* reported together with the wrapped (two's complement) value.
AddI32(a, b) ==
    IF b > 0 /\ a > I32Max - b
        THEN [ovf |-> TRUE, val |-> (a + I32Min) + (b + I32Min)]
    ELSE IF b < 0 /\ a < I32Min - b
        THEN [ovf |-> TRUE, val |-> (a - I32Min) + (b - I32Min)]
    ELSE [ovf |-> FALSE, val |-> a + b]

\* ------------------------------------------------------------------ state
VARIABLES
    game,          \* which Game::round runs: "dilemma", "dilemma_generic", "tug"
    payoff,        \* PrisonerDilemma { both_defects, betrayer_reward, both_cooperate }
    start_energy,  \* TugOfWar { energy }
    iters,         \* the iters argument of round
    pc,            \* the referee's position in round
    i,             \* loop variable of `for i in 0..iters`
    score,         \* let mut score: (Score, Score)
    energy,        \* GameMediator.energy of the left and of the right mediator
    l_decision,    \* l_decision / left_answer of the current iteration
    r_decision,    \* r_decision / right_answer of the current iteration
    l_spent,       \* l_spent of the current iteration
    r_spent,       \* r_spent of the current iteration
    result,        \* what round returned
    pending,       \* Player calls issued and not yet returned
    ret,           \* io::Result of the Player call that returned last
    log,           \* history: every Player call that returned, in order
    iterScores     \* history: the pair every completed iteration returned

\* SubprocessPlayer and the child process behind it
VARIABLES
    child,         \* what the child does: "none", "silent", "echo", "any"
    out_open,      \* the child's end of its stdout pipe is open
    in_open,       \* the child's end of its stdin pipe is open
    child_out,     \* bytes in the stdout pipe, written and not yet read
    child_in,      \* bytes in the stdin pipe, delivered and not yet read
    reader_buf,    \* BufReader: bytes read from the pipe and not yet consumed
    line_acc,      \* ask: the local `line` String read_line appends to
    ask_state,     \* "idle", or "reading" while ask is inside read_line
    read_elapsed,  \* ms the current TimeoutReader::read has been waiting
    ask_elapsed,   \* ms since the current ask was called
    writer_buf,    \* BufWriter: bytes written and not yet flushed
    say_state,     \* "idle", or "flushing" between write_all and flush
    calls,         \* number of ask/say calls made on the player
    written,       \* history: every byte the child wrote to stdout
    consumed,      \* history: number of bytes read_line calls have consumed
    delivered,     \* history: every byte flushed into the stdin pipe
    askLog,        \* history: the outcome of every ask
    sayLog         \* history: the outcome of every say

chanvars == <<child, out_open, in_open, child_out, child_in, reader_buf, line_acc,
              ask_state, read_elapsed, ask_elapsed, writer_buf, say_state, calls,
              written, consumed, delivered, askLog, sayLog>>

\* the players of a test: for each side what it is and its fields
VARIABLES
    actor          \* [kind, started, next_choice] for "L" and for "R", and the
                   \* line it was constructed with (first)

\* main
VARIABLES
    mpc,           \* main's position: "idle", "launch_left", "launch_right",
                   \* "round", "exited"
    launched,      \* the sides whose child process has been spawned
    exit_status,   \* the status the process exited with, NoExit before
    printed,       \* the line written to stdout
    complaint      \* what was written to stderr

mainvars == <<mpc, launched, exit_status, printed, complaint>>

\* the two Prisoner's Dilemma variants run one after the other
VARIABLES
    phase,         \* 0: one round only; 1: the first variant runs; 2: the second
    mode,          \* how the actors answer the second run: "same" lines, or the
                   \* same lines with the defect literal "renamed"
    first          \* the calls (log) and the outcome (result) of the first run

pairvars == <<phase, mode, first>>

\* everything that is not state of Game::round
extvars == <<chanvars, actor, mainvars, pairvars>>

roundvars == <<game, payoff, start_energy, iters, pc, i, score, energy, l_decision,
               r_decision, l_spent, r_spent, result, pending, ret, log, iterScores>>

\* everything that is not state of a SubprocessPlayer
nonchanvars == <<roundvars, actor, mainvars, pairvars>>

vars == <<game, payoff, start_energy, iters, pc, i, score, energy, l_decision,
          r_decision, l_spent, r_spent, result, pending, ret, log, iterScores,
          extvars>>

Games == {"dilemma", "dilemma_generic", "tug"}

\* PrisonerDilemma::default()
DefaultPayoff == [both_defects |-> 1, betrayer_reward |-> 10, both_cooperate |-> 5]

\* payoffs the three fields of PrisonerDilemma::new are drawn from, and the
\* configurations a round is played with
PayoffValues == {-1, 10, I32Max}
PayoffConfigs ==
    [both_defects : PayoffValues, betrayer_reward : PayoffValues,
     both_cooperate : PayoffValues] \cup {DefaultPayoff}

\* lines a player may answer ask() with
DilemmaReplies == {COOPERATE, DEFECT, BETRAY, Sth}
TooBig == <<"4", "2", "9", "4", "9", "6", "7", "2", "9", "6">>
TugReplies ==
    {ToStr(n) : n \in 0..(MaxEnergy + 1)}
        \cup {<<"+", "1">>, <<"-", "1">>, <<>>, TooBig}
Replies == IF game = "tug" THEN TugReplies ELSE DilemmaReplies

NoRet == [ok |-> TRUE, line |-> <<"-">>, none |-> TRUE]
Setup == -1

\* no SubprocessPlayer is modelled: the players are abstract
ChanIdle ==
    /\ child = "none"
    /\ out_open = FALSE
    /\ in_open = FALSE
    /\ child_out = <<>>
    /\ child_in = <<>>
    /\ reader_buf = <<>>
    /\ line_acc = <<>>
    /\ ask_state = "idle"
    /\ read_elapsed = 0
    /\ ask_elapsed = 0
    /\ writer_buf = <<>>
    /\ say_state = "idle"
    /\ calls = 0
    /\ written = <<>>
    /\ consumed = 0
    /\ delivered = <<>>
    /\ askLog = <<>>
    /\ sayLog = <<>>

\* a player the model knows nothing about: it answers any line or fails
NoExit == -1
\* main is not modelled: round is called directly
MainIdle ==
    /\ mpc = "idle"
    /\ launched = {}
    /\ exit_status = NoExit
    /\ printed = <<>>
    /\ complaint = "none"

\* a single round is played
PairIdle ==
    /\ phase = 0
    /\ mode = "none"
    /\ first = [log |-> <<>>, result |-> [tag |-> "None", score |-> <<>>]]

FreeActor == [kind |-> "free", started |-> FALSE, next_choice |-> <<>>, first |-> <<>>]
ActorIdle == actor = [s \in Sides |-> FreeActor]

Init ==
    /\ ChanIdle
    /\ ActorIdle
    /\ MainIdle
    /\ PairIdle
    /\ game \in Games
    /\ iters \in 0..MaxIters
    /\ IF game = "tug"
         THEN /\ start_energy \in 0..MaxEnergy
              /\ payoff = DefaultPayoff
         ELSE /\ start_energy = 0
              /\ payoff \in PayoffConfigs
    /\ pc = "start"
    /\ i = 0
    /\ score = <<0, 0>>
    /\ energy = [L |-> 0, R |-> 0]
    /\ l_decision = "None"
    /\ r_decision = "None"
    /\ l_spent = 0
    /\ r_spent = 0
    /\ result = [tag |-> "None", score |-> <<>>]
    /\ pending = {}
    /\ ret = NoRet
    /\ log = <<>>
    /\ iterScores = <<>>

\* ---------------------------------------------------------------- players
\* Player::say(s) returns Ok(()) or Err
PlayerSay ==
    \E c \in pending :
        /\ c.op = "say"
        /\ \E ok \in BOOLEAN :
            /\ ret' = [ok |-> ok, line |-> <<>>, none |-> FALSE]
            /\ log' = Append(log, [op |-> "say", side |-> c.side, line |-> c.line,
                                   ok |-> ok, iter |-> c.iter])
        /\ pending' = pending \ {c}
        /\ UNCHANGED <<extvars, game, payoff, start_energy, iters, pc, i, score, energy,
                       l_decision, r_decision, l_spent, r_spent, result, iterScores>>

\* Player::ask() returns Ok(line) or Err
PlayerAsk ==
    \E c \in pending :
        /\ c.op = "ask"
        /\ \/ \E line \in Replies :
                /\ ret' = [ok |-> TRUE, line |-> line, none |-> FALSE]
                /\ log' = Append(log, [op |-> "ask", side |-> c.side, line |-> line,
                                       ok |-> TRUE, iter |-> c.iter])
           \/ /\ ret' = [ok |-> FALSE, line |-> <<>>, none |-> FALSE]
              /\ log' = Append(log, [op |-> "ask", side |-> c.side, line |-> <<>>,
                                     ok |-> FALSE, iter |-> c.iter])
        /\ pending' = pending \ {c}
        /\ UNCHANGED <<extvars, game, payoff, start_energy, iters, pc, i, score, energy,
                       l_decision, r_decision, l_spent, r_spent, result, iterScores>>

\* ------------------------------------------------------- referee helpers
\* the referee calls actor.say(line) / actor.ask()
Say(side, line, iter) ==
    /\ pending' = pending \cup {[op |-> "say", side |-> side, line |-> line,
                                 iter |-> iter]}
    /\ ret' = NoRet

Ask(side, iter) ==
    /\ pending' = pending \cup {[op |-> "ask", side |-> side, line |-> <<>>,
                                 iter |-> iter]}
    /\ ret' = NoRet

\* the call the referee waits for has returned
Returned == pending = {} /\ ~ret.none

\* `.map_err(GameError::ErrorLeft)?` / `.map_err(GameError::ErrorRight)?`
\* on an Err: round returns Err(tag(e))
Fail(tag) ==
    /\ pc' = "done"
    /\ result' = [tag |-> tag, score |-> <<>>]
    /\ ret' = NoRet
    /\ UNCHANGED <<pending, i, score, energy, l_decision, r_decision, l_spent,
                   r_spent, iterScores>>

\* mutant: both actors are asked at once
LoopHead_BothAsks(k, newscore) ==
    /\ i' = k
    /\ score' = newscore
    /\ IF k < iters
         THEN /\ pending' = pending \cup
                    {[op |-> "ask", side |-> "L", line |-> <<>>, iter |-> k],
                     [op |-> "ask", side |-> "R", line |-> <<>>, iter |-> k]}
              /\ ret' = NoRet
              /\ pc' = "ask_left"
              /\ result' = result
         ELSE /\ pc' = "done"
              /\ result' = [tag |-> "Ok", score |-> newscore]
              /\ ret' = NoRet
              /\ pending' = pending

\* head of `for i in 0..iters`: the next iteration starts with the left
\* actor's ask, or the loop is over and round returns Ok(score)
LoopHead(k, newscore) ==
    /\ i' = k
    /\ score' = newscore
    /\ IF k < iters
         THEN /\ Ask("L", k)
              /\ pc' = "ask_left"
              /\ result' = result
         ELSE /\ pc' = "done"
              /\ result' = [tag |-> "Ok", score |-> newscore]
              /\ ret' = NoRet
              /\ pending' = pending

\* `score.0 += res.0; score.1 += res.1;` and the next turn of the loop.  An
\* i32 overflow panics in a build with overflow checks and wraps otherwise.
Accumulate(res) ==
    LET a == AddI32(score[1], res[1])
        b == AddI32(score[2], res[2])
    IN  /\ iterScores' = Append(iterScores, res)
        /\ \/ LoopHead(i + 1, <<a.val, b.val>>)
           \/ /\ a.ovf \/ b.ovf
              /\ pc' = "panicked"
              /\ result' = [tag |-> "Panic", score |-> <<>>]
              /\ ret' = NoRet
              /\ UNCHANGED <<pending, i, score>>

\* ------------------------------- Prisoner's Dilemma (src/games/dilemma.rs)
\* mutant: the two one-sided arms of the match are exchanged
Payoff_Swapped(l, r) ==
    IF l = "Cooperate" /\ r = "Cooperate"
        THEN <<payoff.both_cooperate, payoff.both_cooperate>>
    ELSE IF l = "Cooperate" /\ r = "Defect" THEN <<payoff.betrayer_reward, 0>>
    ELSE IF l = "Defect" /\ r = "Cooperate" THEN <<0, payoff.betrayer_reward>>
    ELSE <<payoff.both_defects, payoff.both_defects>>

\* the match of PrisonerDilemma::iteration
Payoff(l, r) ==
    IF l = "Cooperate" /\ r = "Cooperate"
        THEN <<payoff.both_cooperate, payoff.both_cooperate>>
    ELSE IF l = "Cooperate" /\ r = "Defect" THEN <<0, payoff.betrayer_reward>>
    ELSE IF l = "Defect" /\ r = "Cooperate" THEN <<payoff.betrayer_reward, 0>>
    ELSE <<payoff.both_defects, payoff.both_defects>>

\* round: the mediators are created and left.initial(iters) is called
D_Round ==
    /\ game = "dilemma"
    /\ pc = "start"
    /\ Say("L", ToStr(iters), Setup)
    /\ pc' = "init_left"
    /\ UNCHANGED <<extvars, game, payoff, start_energy, iters, i, score, energy, l_decision,
                   r_decision, l_spent, r_spent, result, log, iterScores>>

\* left.initial(iters) returned; right.initial(iters) is called
D_InitLeft ==
    /\ game = "dilemma"
    /\ pc = "init_left"
    /\ Returned
    /\ IF ~ret.ok
         THEN Fail("ErrorLeft")
         ELSE /\ Say("R", ToStr(iters), Setup)
              /\ pc' = "init_right"
              /\ UNCHANGED <<i, score, energy, l_decision, r_decision, l_spent,
                             r_spent, result, iterScores>>
    /\ UNCHANGED <<extvars, game, payoff, start_energy, iters, log>>

\* right.initial(iters) returned; score = (0, 0) and the loop starts
D_InitRight ==
    /\ game = "dilemma"
    /\ pc = "init_right"
    /\ Returned
    /\ IF ~ret.ok
         THEN Fail("ErrorRight")
         ELSE /\ LoopHead(0, <<0, 0>>)
              /\ UNCHANGED <<energy, l_decision, r_decision, l_spent, r_spent,
                             iterScores>>
    /\ UNCHANGED <<extvars, game, payoff, start_energy, iters, log>>

\* iteration: left.decision() returned; right.decision() is called
D_DecisionLeft ==
    /\ game = "dilemma"
    /\ pc = "ask_left"
    /\ Returned
    /\ IF ~ret.ok \/ from_str(ret.line) = "Err"
         THEN Fail("ErrorLeft")
         ELSE /\ l_decision' = from_str(ret.line)
              /\ Ask("R", i)
              /\ pc' = "ask_right"
              /\ UNCHANGED <<i, score, energy, r_decision, l_spent, r_spent,
                             result, iterScores>>
    /\ UNCHANGED <<extvars, game, payoff, start_energy, iters, log>>

\* iteration: right.decision() returned; left.notify(&r_decision) is called
D_DecisionRight ==
    /\ game = "dilemma"
    /\ pc = "ask_right"
    /\ Returned
    /\ IF ~ret.ok \/ from_str(ret.line) = "Err"
         THEN Fail("ErrorRight")
         ELSE /\ r_decision' = from_str(ret.line)
              /\ Say("L", to_str(from_str(ret.line)), i)
              /\ pc' = "notify_left"
              /\ UNCHANGED <<i, score, energy, l_decision, l_spent, r_spent,
                             result, iterScores>>
    /\ UNCHANGED <<extvars, game, payoff, start_energy, iters, log>>

\* iteration: left.notify returned; right.notify(&l_decision) is called
D_NotifyLeft ==
    /\ game = "dilemma"
    /\ pc = "notify_left"
    /\ Returned
    /\ IF ~ret.ok
         THEN Fail("ErrorLeft")
         ELSE /\ Say("R", to_str(l_decision), i)
              /\ pc' = "notify_right"
              /\ UNCHANGED <<i, score, energy, l_decision, r_decision, l_spent,
                             r_spent, result, iterScores>>
    /\ UNCHANGED <<extvars, game, payoff, start_energy, iters, log>>

\* iteration: right.notify returned; the iteration returns its pair, round
\* adds it to score and goes on with the loop
D_NotifyRight ==
    /\ game = "dilemma"
    /\ pc = "notify_right"
    /\ Returned
    /\ IF ~ret.ok
         THEN Fail("ErrorRight")
         ELSE /\ Accumulate(Payoff(l_decision, r_decision))
              /\ UNCHANGED <<energy, l_decision, r_decision, l_spent, r_spent>>
    /\ UNCHANGED <<extvars, game, payoff, start_energy, iters, log>>

\* --------------------------- generic Prisoner's Dilemma (src/dilemma.rs)
\* the match of the generic PrisonerDilemma::iteration; its fields
\* mutual_defects, defect, cooperate are both_defects, betrayer_reward,
\* both_cooperate of `payoff`
G_Payoff(l, r) ==
    IF l = "Cooperate" /\ r = "Cooperate"
        THEN <<payoff.both_cooperate, payoff.both_cooperate>>
    ELSE IF l = "Cooperate" /\ r = "Betray" THEN <<0, payoff.betrayer_reward>>
    ELSE IF l = "Betray" /\ r = "Cooperate" THEN <<payoff.betrayer_reward, 0>>
    ELSE <<payoff.both_defects, payoff.both_defects>>

G_Round ==
    /\ game = "dilemma_generic"
    /\ pc = "start"
    /\ Say("L", ToStr(iters), Setup)
    /\ pc' = "init_left"
    /\ UNCHANGED <<extvars, game, payoff, start_energy, iters, i, score, energy, l_decision,
                   r_decision, l_spent, r_spent, result, log, iterScores>>

G_InitLeft ==
    /\ game = "dilemma_generic"
    /\ pc = "init_left"
    /\ Returned
    /\ IF ~ret.ok
         THEN Fail("ErrorLeft")
         ELSE /\ Say("R", ToStr(iters), Setup)
              /\ pc' = "init_right"
              /\ UNCHANGED <<i, score, energy, l_decision, r_decision, l_spent,
                             r_spent, result, iterScores>>
    /\ UNCHANGED <<extvars, game, payoff, start_energy, iters, log>>

G_InitRight ==
    /\ game = "dilemma_generic"
    /\ pc = "init_right"
    /\ Returned
    /\ IF ~ret.ok
         THEN Fail("ErrorRight")
         ELSE /\ LoopHead(0, <<0, 0>>)
              /\ UNCHANGED <<energy, l_decision, r_decision, l_spent, r_spent,
                             iterScores>>
    /\ UNCHANGED <<extvars, game, payoff, start_energy, iters, log>>

\* left.ask() returned and Action::from_str parsed it; right.ask() is called
G_AnswerLeft ==
    /\ game = "dilemma_generic"
    /\ pc = "ask_left"
    /\ Returned
    /\ IF ~ret.ok \/ Action_from_str(ret.line) = "Err"
         THEN Fail("ErrorLeft")
         ELSE /\ l_decision' = Action_from_str(ret.line)
              /\ Ask("R", i)
              /\ pc' = "ask_right"
              /\ UNCHANGED <<i, score, energy, r_decision, l_spent, r_spent,
                             result, iterScores>>
    /\ UNCHANGED <<extvars, game, payoff, start_energy, iters, log>>

G_AnswerRight ==
    /\ game = "dilemma_generic"
    /\ pc = "ask_right"
    /\ Returned
    /\ IF ~ret.ok \/ Action_from_str(ret.line) = "Err"
         THEN Fail("ErrorRight")
         ELSE /\ r_decision' = Action_from_str(ret.line)
              /\ Say("L", Action_to_str(Action_from_str(ret.line)), i)
              /\ pc' = "notify_left"
              /\ UNCHANGED <<i, score, energy, l_decision, l_spent, r_spent,
                             result, iterScores>>
    /\ UNCHANGED <<extvars, game, payoff, start_energy, iters, log>>

G_SayLeft ==
    /\ game = "dilemma_generic"
    /\ pc = "notify_left"
    /\ Returned
    /\ IF ~ret.ok
         THEN Fail("ErrorLeft")
         ELSE /\ Say("R", Action_to_str(l_decision), i)
              /\ pc' = "notify_right"
              /\ UNCHANGED <<i, score, energy, l_decision, r_decision, l_spent,
                             r_spent, result, iterScores>>
    /\ UNCHANGED <<extvars, game, payoff, start_energy, iters, log>>

G_SayRight ==
    /\ game = "dilemma_generic"
    /\ pc = "notify_right"
    /\ Returned
    /\ IF ~ret.ok
         THEN Fail("ErrorRight")
         ELSE /\ Accumulate(G_Payoff(l_decision, r_decision))
              /\ UNCHANGED <<energy, l_decision, r_decision, l_spent, r_spent>>
    /\ UNCHANGED <<extvars, game, payoff, start_energy, iters, log>>

\* ------------------------------------- Tug of War (src/games/tug_of_war.rs)
\* mutant: the guard is `spent >= self.energy`
pull_OffByOne(e, r) ==
    LET spent == ParseU32(r.line)
    IN  IF ~r.ok THEN [ok |-> FALSE, spent |-> 0, energy |-> e]
        ELSE IF spent = ParseErr THEN [ok |-> FALSE, spent |-> 0, energy |-> e]
        ELSE IF spent >= e THEN [ok |-> FALSE, spent |-> 0, energy |-> e]
        ELSE [ok |-> TRUE, spent |-> spent, energy |-> e - spent]

\* mutant: the guard on spent is missing
pull_Unchecked(e, r) ==
    LET spent == ParseU32(r.line)
    IN  IF ~r.ok THEN [ok |-> FALSE, spent |-> 0, energy |-> e]
        ELSE IF spent = ParseErr THEN [ok |-> FALSE, spent |-> 0, energy |-> e]
        ELSE [ok |-> TRUE, spent |-> spent, energy |-> e - spent]

\* mutant: the amount is accepted and the energy is left as it was
pull_NoDecrement(e, r) ==
    LET spent == ParseU32(r.line)
    IN  IF ~r.ok THEN [ok |-> FALSE, spent |-> 0, energy |-> e]
        ELSE IF spent = ParseErr THEN [ok |-> FALSE, spent |-> 0, energy |-> e]
        ELSE IF spent > e THEN [ok |-> FALSE, spent |-> 0, energy |-> e]
        ELSE [ok |-> TRUE, spent |-> spent, energy |-> e]

\* GameMediator::pull on a mediator with energy e whose actor.ask() returned
\* r: the io::Result (ok, spent) and the mediator's energy afterwards
pull(e, r) ==
    LET spent == ParseU32(r.line)
    IN  IF ~r.ok THEN [ok |-> FALSE, spent |-> 0, energy |-> e]
        ELSE IF spent = ParseErr THEN [ok |-> FALSE, spent |-> 0, energy |-> e]
        ELSE IF spent > e THEN [ok |-> FALSE, spent |-> 0, energy |-> e]
        ELSE [ok |-> TRUE, spent |-> spent, energy |-> e - spent]

\* mutant: the arms Less and Greater are exchanged
Compare_Swapped(l, r) ==
    IF l < r THEN <<1, 0>>
    ELSE IF l > r THEN <<0, 1>>
    ELSE <<0, 0>>

\* the match of TugOfWar::iteration on l_spent.cmp(&r_spent)
Compare(l, r) ==
    IF l < r THEN <<0, 1>>
    ELSE IF l > r THEN <<1, 0>>
    ELSE <<0, 0>>

\* mutant: initial says the iteration count before the energy
T_Round_ItersFirst ==
    /\ game = "tug"
    /\ pc = "start"
    /\ energy' = [L |-> start_energy, R |-> start_energy]
    /\ Say("L", ToStr(iters), Setup)
    /\ pc' = "init_left_energy"
    /\ UNCHANGED <<extvars, game, payoff, start_energy, iters, i, score, l_decision,
                   r_decision, l_spent, r_spent, result, log, iterScores>>

\* round: both mediators are created with self.energy; left.initial(iters)
\* says the mediator's energy first
T_Round ==
    /\ game = "tug"
    /\ pc = "start"
    /\ energy' = [L |-> start_energy, R |-> start_energy]
    /\ Say("L", ToStr(start_energy), Setup)
    /\ pc' = "init_left_energy"
    /\ UNCHANGED <<extvars, game, payoff, start_energy, iters, i, score, l_decision,
                   r_decision, l_spent, r_spent, result, log, iterScores>>

\* left.initial: say(energy) returned; say(iters) is called
T_InitLeftEnergy ==
    /\ game = "tug"
    /\ pc = "init_left_energy"
    /\ Returned
    /\ IF ~ret.ok
         THEN Fail("ErrorLeft")
         ELSE /\ Say("L", ToStr(iters), Setup)
              /\ pc' = "init_left_iters"
              /\ UNCHANGED <<i, score, energy, l_decision, r_decision, l_spent,
                             r_spent, result, iterScores>>
    /\ UNCHANGED <<extvars, game, payoff, start_energy, iters, log>>

\* left.initial returned; right.initial says the right mediator's energy
T_InitLeftIters ==
    /\ game = "tug"
    /\ pc = "init_left_iters"
    /\ Returned
    /\ IF ~ret.ok
         THEN Fail("ErrorLeft")
         ELSE /\ Say("R", ToStr(energy.R), Setup)
              /\ pc' = "init_right_energy"
              /\ UNCHANGED <<i, score, energy, l_decision, r_decision, l_spent,
                             r_spent, result, iterScores>>
    /\ UNCHANGED <<extvars, game, payoff, start_energy, iters, log>>

\* right.initial: say(energy) returned; say(iters) is called
T_InitRightEnergy ==
    /\ game = "tug"
    /\ pc = "init_right_energy"
    /\ Returned
    /\ IF ~ret.ok
         THEN Fail("ErrorRight")
         ELSE /\ Say("R", ToStr(iters), Setup)
              /\ pc' = "init_right_iters"
              /\ UNCHANGED <<i, score, energy, l_decision, r_decision, l_spent,
                             r_spent, result, iterScores>>
    /\ UNCHANGED <<extvars, game, payoff, start_energy, iters, log>>

\* right.initial returned; score = (0, 0) and the loop starts
T_InitRightIters ==
    /\ game = "tug"
    /\ pc = "init_right_iters"
    /\ Returned
    /\ IF ~ret.ok
         THEN Fail("ErrorRight")
         ELSE /\ LoopHead(0, <<0, 0>>)
              /\ UNCHANGED <<energy, l_decision, r_decision, l_spent, r_spent,
                             iterScores>>
    /\ UNCHANGED <<extvars, game, payoff, start_energy, iters, log>>

\* iteration: the ask of left.pull() returned; right.pull() is called
T_PullLeft ==
    /\ game = "tug"
    /\ pc = "ask_left"
    /\ Returned
    /\ LET p == pull(energy.L, ret)
       IN  IF ~p.ok
             THEN Fail("ErrorLeft")
             ELSE /\ energy' = [energy EXCEPT !.L = p.energy]
                  /\ l_spent' = p.spent
                  /\ Ask("R", i)
                  /\ pc' = "ask_right"
                  /\ UNCHANGED <<i, score, l_decision, r_decision, r_spent,
                                 result, iterScores>>
    /\ UNCHANGED <<extvars, game, payoff, start_energy, iters, log>>

\* iteration: the ask of right.pull() returned; left.notify(r_spent) is called
T_PullRight ==
    /\ game = "tug"
    /\ pc = "ask_right"
    /\ Returned
    /\ LET p == pull(energy.R, ret)
       IN  IF ~p.ok
             THEN Fail("ErrorRight")
             ELSE /\ energy' = [energy EXCEPT !.R = p.energy]
                  /\ r_spent' = p.spent
                  /\ Say("L", ToStr(p.spent), i)
                  /\ pc' = "notify_left"
                  /\ UNCHANGED <<i, score, l_decision, r_decision, l_spent,
                                 result, iterScores>>
    /\ UNCHANGED <<extvars, game, payoff, start_energy, iters, log>>

\* mutant: the result of left.notify is dropped instead of propagated
T_NotifyLeft_Ignored ==
    /\ game = "tug"
    /\ pc = "notify_left"
    /\ Returned
    /\ Say("R", ToStr(l_spent), i)
    /\ pc' = "notify_right"
    /\ UNCHANGED <<i, score, energy, l_decision, r_decision, l_spent,
                   r_spent, result, iterScores>>
    /\ UNCHANGED <<extvars, game, payoff, start_energy, iters, log>>

\* mutant: the right actor is told its own amount
T_NotifyLeft_Echo ==
    /\ game = "tug"
    /\ pc = "notify_left"
    /\ Returned
    /\ IF ~ret.ok
         THEN Fail("ErrorLeft")
         ELSE /\ Say("R", ToStr(r_spent), i)
              /\ pc' = "notify_right"
              /\ UNCHANGED <<i, score, energy, l_decision, r_decision, l_spent,
                             r_spent, result, iterScores>>
    /\ UNCHANGED <<extvars, game, payoff, start_energy, iters, log>>

\* iteration: left.notify returned; right.notify(l_spent) is called
T_NotifyLeft ==
    /\ game = "tug"
    /\ pc = "notify_left"
    /\ Returned
    /\ IF ~ret.ok
         THEN Fail("ErrorLeft")
         ELSE /\ Say("R", ToStr(l_spent), i)
              /\ pc' = "notify_right"
              /\ UNCHANGED <<i, score, energy, l_decision, r_decision, l_spent,
                             r_spent, result, iterScores>>
    /\ UNCHANGED <<extvars, game, payoff, start_energy, iters, log>>

\* iteration: right.notify returned; the iteration returns its pair, round
\* adds it to score and goes on with the loop
T_NotifyRight ==
    /\ game = "tug"
    /\ pc = "notify_right"
    /\ Returned
    /\ IF ~ret.ok
         THEN Fail("ErrorRight")
         ELSE /\ Accumulate(Compare(l_spent, r_spent))
              /\ UNCHANGED <<energy, l_decision, r_decision, l_spent, r_spent>>
    /\ UNCHANGED <<extvars, game, payoff, start_energy, iters, log>>

\* ---------------------------------------------------------- specification
Next ==
    \/ PlayerSay
    \/ PlayerAsk
    \/ D_Round
    \/ D_InitLeft
    \/ D_InitRight
    \/ D_DecisionLeft
    \/ D_DecisionRight
    \/ D_NotifyLeft
    \/ D_NotifyRight
    \/ G_Round
    \/ G_InitLeft
    \/ G_InitRight
    \/ G_AnswerLeft
    \/ G_AnswerRight
    \/ G_SayLeft
    \/ G_SayRight
    \/ T_Round
    \/ T_InitLeftEnergy
    \/ T_InitLeftIters
    \/ T_InitRightEnergy
    \/ T_InitRightIters
    \/ T_PullLeft
    \/ T_PullRight
    \/ T_NotifyLeft
    \/ T_NotifyRight

Spec == Init /\ [][Next]_vars

\* every call returns and the referee's thread runs
SpecFair == Init /\ [][Next]_vars /\ WF_vars(Next)

\* ============================================== SubprocessPlayer (channel)
\* the read timeout of every player, in milliseconds
DEFAULT_TIMEOUT == 200

\* the number of ask/say calls made on one player
MaxCalls == 2
\* the number of bytes a free-running child writes to its stdout
MaxWritten == 3

NL == "\n"
\* what a free-running child writes, byte by byte
ChildBytes == {"a", NL}
\* the lines the referee says: no line holds a newline
SayLines == {<<>>, <<"a">>, <<"a", " ">>}
ChildKinds == {"silent", "echo", "any"}

\* char::is_whitespace on the bytes of the model
Whitespace == {" ", NL, "\r", "\t"}

\* str::trim_end: every trailing whitespace character is stripped
RECURSIVE TrimEnd(_)
TrimEnd(s) ==
    IF s # <<>> /\ s[Len(s)] \in Whitespace
      THEN TrimEnd(SubSeq(s, 1, Len(s) - 1))
      ELSE s

HasNewline(s) == \E k \in 1..Len(s) : s[k] = NL
FirstNewline(s) == CHOOSE k \in 1..Len(s) : s[k] = NL /\ \A j \in 1..(k - 1) : s[j] # NL

\* the state after SubprocessPlayer::new: both pipes open, both buffers empty
ChanInit ==
    /\ child \in ChildKinds
    /\ out_open = TRUE
    /\ in_open = TRUE
    /\ child_out = <<>>
    /\ child_in = <<>>
    /\ reader_buf = <<>>
    /\ line_acc = <<>>
    /\ ask_state = "idle"
    /\ read_elapsed = 0
    /\ ask_elapsed = 0
    /\ writer_buf = <<>>
    /\ say_state = "idle"
    /\ calls = 0
    /\ written = <<>>
    /\ consumed = 0
    /\ delivered = <<>>
    /\ askLog = <<>>
    /\ sayLog = <<>>

\* no round is played: the player is driven call by call
RoundIdle ==
    /\ game = "none"
    /\ payoff = DefaultPayoff
    /\ start_energy = 0
    /\ iters = 0
    /\ pc = "off"
    /\ i = 0
    /\ score = <<0, 0>>
    /\ energy = [L |-> 0, R |-> 0]
    /\ l_decision = "None"
    /\ r_decision = "None"
    /\ l_spent = 0
    /\ r_spent = 0
    /\ result = [tag |-> "None", score |-> <<>>]
    /\ pending = {}
    /\ ret = NoRet
    /\ log = <<>>
    /\ iterScores = <<>>

\* ask is called: `let mut line = String::new()` and read_line starts
C_AskCall ==
    /\ child # "none"
    /\ ask_state = "idle"
    /\ say_state = "idle"
    /\ calls < MaxCalls
    /\ calls' = calls + 1
    /\ ask_state' = "reading"
    /\ line_acc' = <<>>
    /\ read_elapsed' = 0
    /\ ask_elapsed' = 0
    /\ UNCHANGED <<child, out_open, in_open, child_out, child_in, reader_buf,
                   writer_buf, say_state, written, consumed, delivered, askLog, sayLog>>
    /\ UNCHANGED nonchanvars

\* the value ask returns when read_line returned Ok with `line`
AskOk(line, eof) ==
    [ok |-> TRUE, value |-> TrimEnd(line), raw |-> line, err |-> "None", eof |-> eof,
     start |-> consumed' - Len(line), elapsed |-> ask_elapsed]

\* read_line takes bytes out of the BufReader: through the first newline and
\* return, or all of them and read on
C_ReadLine ==
    /\ ask_state = "reading"
    /\ reader_buf # <<>>
    /\ IF HasNewline(reader_buf)
         THEN LET n == FirstNewline(reader_buf)
                  line == line_acc \o SubSeq(reader_buf, 1, n)
              IN  /\ reader_buf' = SubSeq(reader_buf, n + 1, Len(reader_buf))
                  /\ consumed' = consumed + n
                  /\ line_acc' = <<>>
                  /\ ask_state' = "idle"
                  /\ askLog' = Append(askLog, AskOk(line, FALSE))
                  /\ UNCHANGED read_elapsed
         ELSE /\ line_acc' = line_acc \o reader_buf
              /\ consumed' = consumed + Len(reader_buf)
              /\ reader_buf' = <<>>
              /\ read_elapsed' = 0
              /\ UNCHANGED <<ask_state, askLog>>
    /\ UNCHANGED <<child, out_open, in_open, child_out, child_in, ask_elapsed,
                   writer_buf, say_state, calls, written, delivered, sayLog>>
    /\ UNCHANGED nonchanvars

\* TimeoutReader::read returns the bytes that are in the pipe, if they came
\* before its timeout expired
C_Read ==
    /\ ask_state = "reading"
    /\ reader_buf = <<>>
    /\ child_out # <<>>
    /\ read_elapsed < DEFAULT_TIMEOUT
    /\ reader_buf' = child_out
    /\ child_out' = <<>>
    /\ UNCHANGED <<child, out_open, in_open, child_in, line_acc, ask_state,
                   read_elapsed, ask_elapsed, writer_buf, say_state, calls, written,
                   consumed, delivered, askLog, sayLog>>
    /\ UNCHANGED nonchanvars

\* TimeoutReader::read returns Ok(0) at end of stream: read_line returns Ok
C_ReadEof ==
    /\ ask_state = "reading"
    /\ reader_buf = <<>>
    /\ child_out = <<>>
    /\ ~out_open
    /\ read_elapsed < DEFAULT_TIMEOUT
    /\ ask_state' = "idle"
    /\ line_acc' = <<>>
    /\ consumed' = consumed
    /\ askLog' = Append(askLog, AskOk(line_acc, TRUE))
    /\ UNCHANGED <<child, out_open, in_open, child_out, child_in, reader_buf,
                   read_elapsed, ask_elapsed, writer_buf, say_state, calls, written,
                   delivered, sayLog>>
    /\ UNCHANGED nonchanvars

\* the read has no timeout: it keeps waiting for the pipe
C_ReadTimeout_Waits ==
    /\ ask_state = "reading"
    /\ reader_buf = <<>>
    /\ read_elapsed >= DEFAULT_TIMEOUT
    /\ UNCHANGED chanvars
    /\ UNCHANGED nonchanvars

\* TimeoutReader::read fails with TimedOut once it has waited for the timeout:
\* read_line returns the error, ask returns it and drops its local `line`
C_ReadTimeout ==
    /\ ask_state = "reading"
    /\ reader_buf = <<>>
    /\ read_elapsed >= DEFAULT_TIMEOUT
    /\ ask_state' = "idle"
    /\ line_acc' = <<>>
    /\ askLog' = Append(askLog,
                        [ok |-> FALSE, value |-> <<>>, raw |-> line_acc, err |-> "TimedOut",
                         eof |-> FALSE, start |-> consumed - Len(line_acc),
                         elapsed |-> ask_elapsed])
    /\ UNCHANGED <<child, out_open, in_open, child_out, child_in, reader_buf,
                   read_elapsed, ask_elapsed, writer_buf, say_state, calls, written,
                   consumed, delivered, sayLog>>
    /\ UNCHANGED nonchanvars

\* time passes while TimeoutReader::read waits for the pipe
Tick ==
    /\ ask_state = "reading"
    /\ reader_buf = <<>>
    /\ child_out = <<>>
    /\ out_open
    /\ read_elapsed < DEFAULT_TIMEOUT
    /\ read_elapsed' = read_elapsed + (DEFAULT_TIMEOUT \div 2)
    /\ ask_elapsed' = ask_elapsed + (DEFAULT_TIMEOUT \div 2)
    /\ UNCHANGED <<child, out_open, in_open, child_out, child_in, reader_buf, line_acc,
                   ask_state, writer_buf, say_state, calls, written, consumed,
                   delivered, askLog, sayLog>>
    /\ UNCHANGED nonchanvars

\* say is called: the two write_all calls fill the BufWriter
C_SayCall ==
    /\ child # "none"
    /\ ask_state = "idle"
    /\ say_state = "idle"
    /\ calls < MaxCalls
    /\ \E s \in SayLines :
          /\ writer_buf' = writer_buf \o s \o <<NL>>
          /\ sayLog' = Append(sayLog, [line |-> s, status |-> "flushing", open |-> TRUE])
    /\ calls' = calls + 1
    /\ say_state' = "flushing"
    /\ UNCHANGED <<child, out_open, in_open, child_out, child_in, reader_buf, line_acc,
                   ask_state, read_elapsed, ask_elapsed, written, consumed, delivered,
                   askLog>>
    /\ UNCHANGED nonchanvars

\* say returns Ok without flushing the BufWriter
C_Flush_Skipped ==
    /\ say_state = "flushing"
    /\ say_state' = "idle"
    /\ sayLog' = [sayLog EXCEPT ![Len(sayLog)] = [@ EXCEPT !.status = "ok", !.open = in_open]]
    /\ UNCHANGED <<child, out_open, in_open, child_out, child_in, reader_buf, line_acc,
                   ask_state, read_elapsed, ask_elapsed, writer_buf, calls, written,
                   consumed, delivered, askLog>>
    /\ UNCHANGED nonchanvars

\* writer.flush(): the buffered bytes go into the pipe, or the write fails
\* (EPIPE) when the child has closed its end, and say returns
C_Flush ==
    /\ say_state = "flushing"
    /\ say_state' = "idle"
    /\ IF in_open
         THEN /\ child_in' = child_in \o writer_buf
              /\ delivered' = delivered \o writer_buf
              /\ writer_buf' = <<>>
              /\ sayLog' = [sayLog EXCEPT ![Len(sayLog)] = [@ EXCEPT !.status = "ok", !.open = TRUE]]
         ELSE /\ sayLog' = [sayLog EXCEPT ![Len(sayLog)] = [@ EXCEPT !.status = "err", !.open = FALSE]]
              /\ UNCHANGED <<child_in, delivered, writer_buf>>
    /\ UNCHANGED <<child, out_open, in_open, child_out, reader_buf, line_acc,
                   ask_state, read_elapsed, ask_elapsed, calls, written, consumed,
                   askLog>>
    /\ UNCHANGED nonchanvars

\* a free-running child writes one byte to its stdout
ChildWrite ==
    /\ child = "any"
    /\ out_open
    /\ Len(written) < MaxWritten
    /\ \E b \in ChildBytes :
          /\ child_out' = Append(child_out, b)
          /\ written' = Append(written, b)
    /\ UNCHANGED <<child, out_open, in_open, child_in, reader_buf, line_acc, ask_state,
                   read_elapsed, ask_elapsed, writer_buf, say_state, calls, consumed,
                   delivered, askLog, sayLog>>
    /\ UNCHANGED nonchanvars

\* a free-running child closes its stdout (or exits)
ChildCloseOut ==
    /\ child = "any"
    /\ out_open
    /\ out_open' = FALSE
    /\ UNCHANGED <<child, in_open, child_out, child_in, reader_buf, line_acc, ask_state,
                   read_elapsed, ask_elapsed, writer_buf, say_state, calls, written,
                   consumed, delivered, askLog, sayLog>>
    /\ UNCHANGED nonchanvars

\* a child that writes nothing closes its stdin
ChildCloseIn ==
    /\ child = "silent"
    /\ in_open
    /\ in_open' = FALSE
    /\ UNCHANGED <<child, out_open, child_out, child_in, reader_buf, line_acc, ask_state,
                   read_elapsed, ask_elapsed, writer_buf, say_state, calls, written,
                   consumed, delivered, askLog, sayLog>>
    /\ UNCHANGED nonchanvars

\* the echo child reads one line from its stdin and writes it to its stdout
ChildEcho ==
    /\ child = "echo"
    /\ HasNewline(child_in)
    /\ LET n == FirstNewline(child_in)
           line == SubSeq(child_in, 1, n)
       IN  /\ child_in' = SubSeq(child_in, n + 1, Len(child_in))
           /\ child_out' = child_out \o line
           /\ written' = written \o line
    /\ UNCHANGED <<child, out_open, in_open, reader_buf, line_acc, ask_state,
                   read_elapsed, ask_elapsed, writer_buf, say_state, calls, consumed,
                   delivered, askLog, sayLog>>
    /\ UNCHANGED nonchanvars

ChanNext ==
    \/ C_AskCall
    \/ C_ReadLine
    \/ C_Read
    \/ C_ReadEof
    \/ C_ReadTimeout
    \/ Tick
    \/ C_SayCall
    \/ C_Flush
    \/ ChildWrite
    \/ ChildCloseOut
    \/ ChildCloseIn
    \/ ChildEcho

\* one SubprocessPlayer, called directly
ChannelInit == ChanInit /\ RoundIdle /\ ActorIdle /\ MainIdle /\ PairIdle

SpecChannel == ChannelInit /\ [][ChanNext]_vars

\* time passes and the referee's thread runs
SpecChannelFair ==
    /\ ChannelInit
    /\ [][ChanNext]_vars
    /\ WF_vars(Tick)
    /\ WF_vars(C_ReadTimeout)
    /\ WF_vars(C_Read)
    /\ WF_vars(C_ReadLine)
    /\ WF_vars(C_ReadEof)
    /\ WF_vars(C_Flush)

\* ======================================================== test players
\* the number of iterations of a round played by test players
MaxRounds == 4

\* TitForTatPlayer::new(first_choice)
TitForTatPlayer_new(first_choice) ==
    [kind |-> "tit_for_tat", started |-> FALSE, next_choice |-> first_choice,
     first |-> first_choice]

\* a scripted actor that answers every ask with the same line
Scripted_new(reply) ==
    [kind |-> "scripted", started |-> FALSE, next_choice |-> reply, first |-> reply]

\* the literals the test players are constructed with
FirstChoices == {COOPERATE, DEFECT, BETRAY, Sth}

\* PrisonerDilemma::new(1, 10, 5) of the tests, and a reward at the top of Score
ActorPayoffs ==
    {DefaultPayoff, [both_defects |-> 1, betrayer_reward |-> I32Max, both_cooperate |-> 5]}

\* TitForTatPlayer::ask: Ok(self.next_choice.clone())
TFT_Ask ==
    \E c \in pending :
        /\ c.op = "ask"
        /\ actor[c.side].kind = "tit_for_tat"
        /\ ret' = [ok |-> TRUE, line |-> actor[c.side].next_choice, none |-> FALSE]
        /\ log' = Append(log, [op |-> "ask", side |-> c.side,
                               line |-> actor[c.side].next_choice, ok |-> TRUE,
                               iter |-> c.iter])
        /\ pending' = pending \ {c}
        /\ UNCHANGED <<extvars, game, payoff, start_energy, iters, pc, i, score, energy,
                       l_decision, r_decision, l_spent, r_spent, result, iterScores>>

\* TitForTatPlayer::say: the first call sets started, every later call
\* replaces next_choice with the line
TFT_Say ==
    \E c \in pending :
        /\ c.op = "say"
        /\ actor[c.side].kind = "tit_for_tat"
        /\ actor' = [actor EXCEPT ![c.side] =
                        IF ~@.started THEN [@ EXCEPT !.started = TRUE]
                                      ELSE [@ EXCEPT !.next_choice = c.line]]
        /\ ret' = [ok |-> TRUE, line |-> <<>>, none |-> FALSE]
        /\ log' = Append(log, [op |-> "say", side |-> c.side, line |-> c.line,
                               ok |-> TRUE, iter |-> c.iter])
        /\ pending' = pending \ {c}
        /\ UNCHANGED <<chanvars, mainvars, pairvars, game, payoff, start_energy, iters, pc, i, score,
                       energy, l_decision, r_decision, l_spent, r_spent, result, iterScores>>

\* a scripted actor answers ask with its line
Scripted_Ask ==
    \E c \in pending :
        /\ c.op = "ask"
        /\ actor[c.side].kind = "scripted"
        /\ ret' = [ok |-> TRUE, line |-> actor[c.side].next_choice, none |-> FALSE]
        /\ log' = Append(log, [op |-> "ask", side |-> c.side,
                               line |-> actor[c.side].next_choice, ok |-> TRUE,
                               iter |-> c.iter])
        /\ pending' = pending \ {c}
        /\ UNCHANGED <<extvars, game, payoff, start_energy, iters, pc, i, score, energy,
                       l_decision, r_decision, l_spent, r_spent, result, iterScores>>

\* a scripted actor accepts every line said to it and ignores it
Scripted_Say ==
    \E c \in pending :
        /\ c.op = "say"
        /\ actor[c.side].kind = "scripted"
        /\ ret' = [ok |-> TRUE, line |-> <<>>, none |-> FALSE]
        /\ log' = Append(log, [op |-> "say", side |-> c.side, line |-> c.line,
                               ok |-> TRUE, iter |-> c.iter])
        /\ pending' = pending \ {c}
        /\ UNCHANGED <<extvars, game, payoff, start_energy, iters, pc, i, score, energy,
                       l_decision, r_decision, l_spent, r_spent, result, iterScores>>

\* `PrisonerDilemma::new(..).round(&mut l, &mut r, n)` of the tests
ActorsInit ==
    /\ ChanIdle
    /\ MainIdle
    /\ PairIdle
    /\ game \in {"dilemma", "dilemma_generic"}
    /\ iters \in 0..MaxRounds
    /\ start_energy = 0
    /\ payoff \in ActorPayoffs
    /\ \E a \in FirstChoices, b \in FirstChoices :
          \/ actor = [L |-> TitForTatPlayer_new(a), R |-> TitForTatPlayer_new(b)]
          \/ actor = [L |-> Scripted_new(a), R |-> Scripted_new(b)]
    /\ pc = "start"
    /\ i = 0
    /\ score = <<0, 0>>
    /\ energy = [L |-> 0, R |-> 0]
    /\ l_decision = "None"
    /\ r_decision = "None"
    /\ l_spent = 0
    /\ r_spent = 0
    /\ result = [tag |-> "None", score |-> <<>>]
    /\ pending = {}
    /\ ret = NoRet
    /\ log = <<>>
    /\ iterScores = <<>>

ActorsNext ==
    \/ TFT_Ask
    \/ TFT_Say
    \/ Scripted_Ask
    \/ Scripted_Say
    \/ D_Round
    \/ D_InitLeft
    \/ D_InitRight
    \/ D_DecisionLeft
    \/ D_DecisionRight
    \/ D_NotifyLeft
    \/ D_NotifyRight
    \/ G_Round
    \/ G_InitLeft
    \/ G_InitRight
    \/ G_AnswerLeft
    \/ G_AnswerRight
    \/ G_SayLeft
    \/ G_SayRight

SpecActors == ActorsInit /\ [][ActorsNext]_vars

\* ================================================================== main
IO_ERROR_CODE == 3
\* TugOfWar::default()
DefaultEnergy == 100

\* format!("{}", x) of an i32
FmtI32(x) == IF x < 0 THEN <<"-">> \o ToStr(0 - x) ELSE ToStr(x)

\* mutant: a right-attributed failure exits like a left-attributed one
ExitStatusOf_RightAsLeft ==
    [Ok |-> 0, ErrorLeft |-> 1, ErrorRight |-> 1, Launch |-> IO_ERROR_CODE]

\* the status main exits with, per outcome
ExitStatusOf ==
    [Ok |-> 0, ErrorLeft |-> 1, ErrorRight |-> 2, Launch |-> IO_ERROR_CODE]

\* the command line is parsed: the game with its default settings and -i
MainInit ==
    /\ ChanIdle
    /\ ActorIdle
    /\ PairIdle
    /\ mpc = "launch_left"
    /\ launched = {}
    /\ exit_status = NoExit
    /\ printed = <<>>
    /\ complaint = "none"
    /\ game \in {"dilemma", "tug"}
    /\ iters \in 0..MaxIters
    /\ payoff = DefaultPayoff
    /\ start_energy = IF game = "tug" THEN DefaultEnergy ELSE 0
    /\ pc = "not_called"
    /\ i = 0
    /\ score = <<0, 0>>
    /\ energy = [L |-> 0, R |-> 0]
    /\ l_decision = "None"
    /\ r_decision = "None"
    /\ l_spent = 0
    /\ r_spent = 0
    /\ result = [tag |-> "None", score |-> <<>>]
    /\ pending = {}
    /\ ret = NoRet
    /\ log = <<>>
    /\ iterScores = <<>>

\* SubprocessPlayer::from_program(program_left): the child is spawned, or
\* main complains and exits
M_LaunchLeft ==
    /\ mpc = "launch_left"
    /\ \/ /\ launched' = launched \cup {"L"}
          /\ mpc' = "launch_right"
          /\ UNCHANGED <<exit_status, complaint>>
       \/ /\ complaint' = "failed to init left player"
          /\ exit_status' = ExitStatusOf.Launch
          /\ mpc' = "exited"
          /\ UNCHANGED launched
    /\ UNCHANGED <<printed, chanvars, actor, pairvars, roundvars>>

\* SubprocessPlayer::from_program(program_right), then game.round is called
M_LaunchRight ==
    /\ mpc = "launch_right"
    /\ \/ /\ launched' = launched \cup {"R"}
          /\ mpc' = "round"
          /\ pc' = "start"
          /\ UNCHANGED <<exit_status, complaint>>
       \/ /\ complaint' = "failed to init right player"
          /\ exit_status' = ExitStatusOf.Launch
          /\ mpc' = "exited"
          /\ UNCHANGED <<launched, pc>>
    /\ UNCHANGED <<printed, chanvars, actor, pairvars, game, payoff, start_energy, iters, i, score,
                   energy, l_decision, r_decision, l_spent, r_spent, result, pending,
                   ret, log, iterScores>>

\* `match res`: the scores are printed, or the error, and main returns
M_Exit ==
    /\ mpc = "round"
    /\ pc = "done"
    /\ mpc' = "exited"
    /\ exit_status' = ExitStatusOf[result.tag]
    /\ IF result.tag = "Ok"
         THEN /\ printed' = FmtI32(result.score[1]) \o <<" ">> \o FmtI32(result.score[2])
              /\ UNCHANGED complaint
         ELSE /\ complaint' = result.tag
              /\ UNCHANGED printed
    /\ UNCHANGED <<launched, chanvars, actor, pairvars, roundvars>>

MainNext ==
    \/ M_LaunchLeft
    \/ M_LaunchRight
    \/ M_Exit
    \/ PlayerSay
    \/ PlayerAsk
    \/ D_Round
    \/ D_InitLeft
    \/ D_InitRight
    \/ D_DecisionLeft
    \/ D_DecisionRight
    \/ D_NotifyLeft
    \/ D_NotifyRight
    \/ T_Round
    \/ T_InitLeftEnergy
    \/ T_InitLeftIters
    \/ T_InitRightEnergy
    \/ T_InitRightIters
    \/ T_PullLeft
    \/ T_PullRight
    \/ T_NotifyLeft
    \/ T_NotifyRight

SpecMain == MainInit /\ [][MainNext]_vars

\* ============================ the two Prisoner's Dilemma variants compared
\* the payoffs the two variants are constructed with
PairPayoffs ==
    {DefaultPayoff, [both_defects |-> -1, betrayer_reward |-> 5, both_cooperate |-> 10]}

OtherVariant(g) == IF g = "dilemma" THEN "dilemma_generic" ELSE "dilemma"

\* DEFECT of src/games/dilemma.rs is BETRAY of src/dilemma.rs
SwapLiteral(line) ==
    IF line = DEFECT THEN BETRAY ELSE IF line = BETRAY THEN DEFECT ELSE line

Rename(line) == IF mode = "renamed" THEN SwapLiteral(line) ELSE line

\* the first variant is constructed and its round called
PairInit ==
    /\ ChanIdle
    /\ ActorIdle
    /\ MainIdle
    /\ phase = 1
    /\ mode \in {"same", "renamed"}
    /\ first = [log |-> <<>>, result |-> [tag |-> "None", score |-> <<>>]]
    /\ game \in {"dilemma", "dilemma_generic"}
    /\ iters \in 0..MaxIters
    /\ payoff \in PairPayoffs
    /\ start_energy = 0
    /\ pc = "start"
    /\ i = 0
    /\ score = <<0, 0>>
    /\ energy = [L |-> 0, R |-> 0]
    /\ l_decision = "None"
    /\ r_decision = "None"
    /\ l_spent = 0
    /\ r_spent = 0
    /\ result = [tag |-> "None", score |-> <<>>]
    /\ pending = {}
    /\ ret = NoRet
    /\ log = <<>>
    /\ iterScores = <<>>

\* the actors of the first run answer freely
P_FirstSay == phase = 1 /\ PlayerSay
P_FirstAsk == phase = 1 /\ PlayerAsk

\* the first round is over: the other variant is constructed with the same
\* payoffs and its round called with the same iters
P_SecondRun ==
    /\ phase = 1
    /\ pc = "done"
    /\ phase' = 2
    /\ first' = [log |-> log, result |-> result]
    /\ game' = OtherVariant(game)
    /\ pc' = "start"
    /\ i' = 0
    /\ score' = <<0, 0>>
    /\ l_decision' = "None"
    /\ r_decision' = "None"
    /\ result' = [tag |-> "None", score |-> <<>>]
    /\ pending' = {}
    /\ ret' = NoRet
    /\ log' = <<>>
    /\ iterScores' = <<>>
    /\ UNCHANGED <<mode, payoff, start_energy, iters, energy, l_spent, r_spent,
                   chanvars, actor, mainvars>>

\* the calls made on one side, in order
SideCalls(l, side) == SelectSeq(l, LAMBDA e : e.side = side)

\* what the actor did in the first run at the call that call c is in the
\* second: <<entry>>, or <<>> when the first run made no such call
Counterpart(c) ==
    LET mine == SideCalls(log, c.side)
        theirs == SideCalls(first.log, c.side)
    IN  IF Len(mine) < Len(theirs) /\ theirs[Len(mine) + 1].op = c.op
          THEN <<theirs[Len(mine) + 1]>>
          ELSE <<>>

\* the actors of the second run accept a line as they did in the first
ReplaySay ==
    /\ phase = 2
    /\ \E c \in pending :
        /\ c.op = "say"
        /\ \E ok \in (IF Counterpart(c) # <<>> THEN {Counterpart(c)[1].ok} ELSE BOOLEAN) :
            /\ ret' = [ok |-> ok, line |-> <<>>, none |-> FALSE]
            /\ log' = Append(log, [op |-> "say", side |-> c.side, line |-> c.line,
                                   ok |-> ok, iter |-> c.iter])
        /\ pending' = pending \ {c}
    /\ UNCHANGED <<extvars, game, payoff, start_energy, iters, pc, i, score, energy,
                   l_decision, r_decision, l_spent, r_spent, result, iterScores>>

\* the actors of the second run answer as they did in the first
ReplayAsk ==
    /\ phase = 2
    /\ \E c \in pending :
        /\ c.op = "ask"
        /\ \E r \in (IF Counterpart(c) # <<>>
                       THEN {[ok |-> Counterpart(c)[1].ok,
                              line |-> Rename(Counterpart(c)[1].line)]}
                       ELSE [ok : {TRUE}, line : DilemmaReplies] \cup
                            {[ok |-> FALSE, line |-> <<>>]}) :
            /\ ret' = [ok |-> r.ok, line |-> r.line, none |-> FALSE]
            /\ log' = Append(log, [op |-> "ask", side |-> c.side, line |-> r.line,
                                   ok |-> r.ok, iter |-> c.iter])
        /\ pending' = pending \ {c}
    /\ UNCHANGED <<extvars, game, payoff, start_energy, iters, pc, i, score, energy,
                   l_decision, r_decision, l_spent, r_spent, result, iterScores>>

PairNext ==
    \/ P_FirstSay
    \/ P_FirstAsk
    \/ P_SecondRun
    \/ ReplaySay
    \/ ReplayAsk
    \/ D_Round
    \/ D_InitLeft
    \/ D_InitRight
    \/ D_DecisionLeft
    \/ D_DecisionRight
    \/ D_NotifyLeft
    \/ D_NotifyRight
    \/ G_Round
    \/ G_InitLeft
    \/ G_InitRight
    \/ G_AnswerLeft
    \/ G_AnswerRight
    \/ G_SayLeft
    \/ G_SayRight

SpecPair == PairInit /\ [][PairNext]_vars

\* ================================================================= claims
\* the index in log of the ask of `side` in iteration j (0-based)
AskIndex(j, side) ==
    CHOOSE k \in 1..Len(log) :
        log[k].op = "ask" /\ log[k].iter = j /\ log[k].side = side

\* the line `side` answered in iteration j
ReplyLine(j, side) == log[AskIndex(j, side)].line

IsDilemma == game \in {"dilemma", "dilemma_generic"}
LastLog == log[Len(log)]
ErrorTag(side) == IF side = "L" THEN "ErrorLeft" ELSE "ErrorRight"

\* the payoff matrix as the specification states it, on the two reply lines
\* of an iteration that was completed (so both lines were recognized)
MatrixOf(l, r) ==
    IF l = COOPERATE /\ r = COOPERATE
        THEN <<payoff.both_cooperate, payoff.both_cooperate>>
    ELSE IF l = COOPERATE THEN <<0, payoff.betrayer_reward>>
    ELSE IF r = COOPERATE THEN <<payoff.betrayer_reward, 0>>
    ELSE <<payoff.both_defects, payoff.both_defects>>

RECURSIVE SumHigh(_, _)
SumHigh(seq, k) ==
    IF seq = <<>> THEN 0 ELSE (seq[1][k] \div 65536) + SumHigh(Tail(seq), k)

RECURSIVE SumLow(_, _)
SumLow(seq, k) ==
    IF seq = <<>> THEN 0 ELSE (seq[1][k] % 65536) + SumLow(Tail(seq), k)

\* x is exactly the sum of the k-th components of seq
IsExactSum(x, seq, k) ==
    LET lo == SumLow(seq, k)
        hi == SumHigh(seq, k) + (lo \div 65536)
    IN  (x \div 65536) = hi /\ (x % 65536) = (lo % 65536)

InLoop == pc \in {"ask_left", "ask_right", "notify_left", "notify_right"}

\* C2: when round succeeds the returned pair is the component-wise sum of
\* the iters per-iteration pairs, each counted once, and inside the loop the
\* running total is the sum of the iterations completed so far.
C2_TotalIsSum ==
    /\ result.tag = "Ok" =>
        /\ Len(iterScores) = iters
        /\ IsExactSum(result.score[1], iterScores, 1)
        /\ IsExactSum(result.score[2], iterScores, 2)
    /\ InLoop =>
        /\ Len(iterScores) = i
        /\ IsExactSum(score[1], iterScores, 1)
        /\ IsExactSum(score[2], iterScores, 2)

\* the referee is about to process the returned ask of a pull whose line
\* parsed as an amount
PullReturned ==
    /\ game = "tug"
    /\ pc \in {"ask_left", "ask_right"}
    /\ Returned
    /\ ret.ok
    /\ ParseU32(ret.line) # ParseErr

PullSide == IF pc = "ask_left" THEN "L" ELSE "R"

\* C3: a pull whose parsed amount is at most the side's remaining energy
\* leaves that energy minus the amount; a pull of more than the remaining
\* energy fails, leaves the energy unchanged, and round returns a failure
\* attributed to the spending side.
C3_Pull ==
    [][PullReturned =>
        LET spent == ParseU32(ret.line)
        IN  IF spent <= energy[PullSide]
              THEN /\ energy'[PullSide] = energy[PullSide] - spent
                   /\ result'.tag = "None"
              ELSE /\ energy' = energy
                   /\ pc' = "done"
                   /\ result' = [tag |-> ErrorTag(PullSide), score |-> <<>>]]_vars

\* C3 witness: the left side has spent part of its energy, and the right
\* side's pull of more than it has left ended the round with ErrorRight
C3_Witness ==
    /\ game = "tug"
    /\ result.tag = "ErrorRight"
    /\ Len(log) > 0
    /\ LastLog.op = "ask" /\ LastLog.side = "R" /\ LastLog.ok
    /\ ParseU32(LastLog.line) # ParseErr
    /\ ParseU32(LastLog.line) > energy.R
    /\ energy.R = start_energy - 1
    /\ energy.L = 0
    /\ start_energy = 2

\* C4: each side's remaining energy stays within 0..starting energy, never
\* grows, and changes only when the referee processes that side's own pull.
C4_Energy ==
    /\ [](\A s \in Sides : 0 <= energy[s] /\ energy[s] <= start_energy)
    /\ [][pc # "start" =>
            \A s \in Sides :
                /\ energy'[s] <= energy[s]
                /\ energy'[s] # energy[s] =>
                    /\ pc = (IF s = "L" THEN "ask_left" ELSE "ask_right")
                    /\ LastLog.op = "ask" /\ LastLog.side = s]_vars

\* C4 witness: after two iterations the left side has spent everything and
\* the right side nothing
C4_Witness ==
    /\ game = "tug"
    /\ start_energy = 2
    /\ Len(iterScores) = 2
    /\ energy.L = 0
    /\ energy.R = start_energy

\* lines of log that games/dilemma.rs does not recognize as a decision
Unrecognized(k) ==
    /\ log[k].op = "ask"
    /\ log[k].ok
    /\ log[k].line \notin {COOPERATE, DEFECT}

\* C5: in Prisoner's Dilemma a reply other than COOPERATE and DEFECT ends the
\* round with a failure attributed to the side that sent it; the other side
\* is not blamed and gets no notification for that iteration.
C5_UnknownDecision ==
    game = "dilemma" =>
        \A k \in 1..Len(log) :
            Unrecognized(k) =>
                /\ k = Len(log)
                /\ pending = {}
                /\ \/ pc = (IF log[k].side = "L" THEN "ask_left" ELSE "ask_right")
                      /\ result.tag = "None"
                   \/ pc = "done"
                      /\ result = [tag |-> ErrorTag(log[k].side), score |-> <<>>]
                /\ \A m \in 1..Len(log) :
                      ~(log[m].op = "say" /\ log[m].iter = log[k].iter)

\* C5 witness: in the second iteration the right actor answered BETRAY after
\* the left actor's valid answer, and round returned ErrorRight
C5_Witness ==
    /\ game = "dilemma"
    /\ pc = "done"
    /\ result.tag = "ErrorRight"
    /\ Len(log) > 0
    /\ LastLog.op = "ask" /\ LastLog.side = "R" /\ LastLog.iter = 1
    /\ LastLog.line = BETRAY

\* --------------------------------------------------------------- C6 .. C8
\* energy `side` had left before the call logged at index k, computed from
\* the replies logged before it
RECURSIVE SpentBefore(_, _)
SpentBefore(k, side) ==
    IF k <= 1 THEN 0
    ELSE LET e == log[k - 1]
             v == IF e.op = "ask" /\ e.side = side /\ e.ok
                        /\ ParseU32(e.line) # ParseErr
                    THEN ParseU32(e.line) ELSE 0
         IN  v + SpentBefore(k - 1, side)

\* the call logged at index k is a failing step: a failed say or ask, a
\* reply the game cannot parse, or an overspend
FailingStep(k) ==
    LET e == log[k]
    IN  \/ ~e.ok
        \/ /\ e.op = "ask"
           /\ IF game = "dilemma" THEN e.line \notin {COOPERATE, DEFECT}
              ELSE IF game = "dilemma_generic" THEN e.line \notin {COOPERATE, BETRAY}
              ELSE \/ ParseU32(e.line) = ParseErr
                   \/ ParseU32(e.line) > start_energy - SpentBefore(k, e.side)

\* C6: round stops at the first failing step: that step is the last call
\* ever made, nothing is pending after it, and round returns (without a
\* score pair) the failure tagged with the side of that step; a round that
\* returned a failure did so because its last call failed, and a round that
\* returned a score pair had no failing step.
C6_StopAtFirstFailure ==
    /\ \A k \in 1..Len(log) :
          FailingStep(k) =>
              /\ k = Len(log)
              /\ pending = {}
              /\ \/ pc # "done" /\ result.tag = "None"
                 \/ /\ pc = "done"
                    /\ result = [tag |-> ErrorTag(log[k].side), score |-> <<>>]
    /\ result.tag \in {"ErrorLeft", "ErrorRight"} =>
          Len(log) > 0 /\ FailingStep(Len(log))
    /\ pc = "done" => pending = {}

\* C6 witness: a Tug of War round that ended with ErrorLeft on the left
\* actor's failed notification in the second iteration
C6_Witness ==
    /\ game = "tug"
    /\ pc = "done"
    /\ result.tag = "ErrorLeft"
    /\ Len(log) > 0
    /\ LastLog.op = "say" /\ LastLog.side = "L" /\ LastLog.iter = 1
    /\ ~LastLog.ok

\* number of calls of the setup phase
SetupLen == IF game = "tug" THEN 4 ELSE 2

\* the order of the four calls of one iteration
IterationOrder ==
    << [op |-> "ask", side |-> "L"], [op |-> "ask", side |-> "R"],
       [op |-> "say", side |-> "L"], [op |-> "say", side |-> "R"] >>

\* the call e, the k-th call issued in the round (k > SetupLen), is the one
\* the fixed order of an iteration puts at that position
InOrder(e, k) ==
    LET n == k - SetupLen - 1
    IN  /\ e.iter = n \div 4
        /\ e.op = IterationOrder[(n % 4) + 1].op
        /\ e.side = IterationOrder[(n % 4) + 1].side

\* C7: at most one call is in progress at any time, and the calls of every
\* iteration are issued one after the other in the order ask(left),
\* ask(right), say(left), say(right), each after the previous one returned.
C7_SequentialOrder ==
    /\ Cardinality(pending) <= 1
    /\ \A k \in (SetupLen + 1)..Len(log) : InOrder(log[k], k)
    /\ \A c \in pending : Len(log) >= SetupLen => InOrder(c, Len(log) + 1)

\* C7 witness: in the second iteration the ask of the right actor is in
\* progress after the ask of the left actor returned
C7_Witness ==
    /\ pending = {[op |-> "ask", side |-> "R", line |-> <<>>, iter |-> 1]}
    /\ Len(log) = SetupLen + 5
    /\ LastLog.op = "ask" /\ LastLog.side = "L" /\ LastLog.iter = 1

\* the lines of the setup phase, in order, with the actor they go to
SetupCalls ==
    IF game = "tug"
      THEN << [side |-> "L", line |-> ToStr(start_energy)],
              [side |-> "L", line |-> ToStr(iters)],
              [side |-> "R", line |-> ToStr(start_energy)],
              [side |-> "R", line |-> ToStr(iters)] >>
      ELSE << [side |-> "L", line |-> ToStr(iters)],
              [side |-> "R", line |-> ToStr(iters)] >>

\* the call e, the k-th call issued in the round, is the k-th setup call if
\* k is within the setup, and is no setup call otherwise
SetupPlace(e, k) ==
    IF k <= SetupLen
      THEN /\ e.op = "say"
           /\ e.iter = Setup
           /\ e.side = SetupCalls[k].side
           /\ e.line = SetupCalls[k].line
      ELSE e.iter # Setup

\* C8: the setup lines are sent once, before any ask: the first calls of a
\* round are the says of the setup (iteration count to left then right in
\* Prisoner's Dilemma; energy then iteration count, left then right, in Tug
\* of War), and no later call belongs to the setup.
C8_SetupOnce ==
    /\ \A k \in 1..Len(log) : SetupPlace(log[k], k)
    /\ \A c \in pending : SetupPlace(c, Len(log) + 1)

\* C8 witness: Tug of War with energy 2 and 1 iteration, setup done and the
\* first ask returned
C8_Witness ==
    /\ game = "tug"
    /\ start_energy = 2
    /\ iters = 1
    /\ Len(log) = 5
    /\ log[5].op = "ask"
    /\ \A k \in 1..4 : log[k].ok

\* --------------------------------------------------------------- C9 .. C10
\* what the opponent is told about an accepted reply line: the decision
\* literal in Prisoner's Dilemma, the decimal amount in Tug of War
Encoded(line) == IF game = "tug" THEN ToStr(ParseU32(line)) ELSE line

\* C9: every notification of an iteration carries the encoding of what the
\* other actor answered in that same iteration.
C9_OpponentAnswer ==
    \A k \in 1..Len(log) :
        (log[k].op = "say" /\ log[k].iter # Setup) =>
            /\ \E m \in 1..(k - 1) :
                  /\ log[m].op = "ask"
                  /\ log[m].iter = log[k].iter
                  /\ log[m].side = Other(log[k].side)
            /\ log[k].line = Encoded(ReplyLine(log[k].iter, Other(log[k].side)))

\* C9 witness: Tug of War, second iteration completed, in which the left
\* actor answered "0" and the right actor "+1": left was told "1", right "0"
C9_Witness ==
    /\ game = "tug"
    /\ Len(iterScores) = 2
    /\ ReplyLine(1, "L") = <<"0">>
    /\ ReplyLine(1, "R") = <<"+", "1">>
    /\ ReplyLine(0, "L") = <<"2">>
    /\ \E k \in 1..Len(log) :
          /\ log[k].op = "say" /\ log[k].iter = 1 /\ log[k].side = "L"
          /\ log[k].line = <<"1">>
    /\ \E k \in 1..Len(log) :
          /\ log[k].op = "say" /\ log[k].iter = 1 /\ log[k].side = "R"
          /\ log[k].line = <<"0">>

\* C10: every completed Tug of War iteration returned (1,0) when the left
\* amount of that iteration was the greater, (0,1) when it was the smaller,
\* and (0,0) when the two amounts were equal.
C10_TugScore ==
    game = "tug" =>
        \A j \in 1..Len(iterScores) :
            LET l == ParseU32(ReplyLine(j - 1, "L"))
                r == ParseU32(ReplyLine(j - 1, "R"))
            IN  /\ l > r => iterScores[j] = <<1, 0>>
                /\ l < r => iterScores[j] = <<0, 1>>
                /\ l = r => iterScores[j] = <<0, 0>>

\* C10 witness: the left side won the first iteration by spending all it
\* had; in the second both spent 0 and nobody scored although the right side
\* had more energy left
C10_Witness ==
    /\ game = "tug"
    /\ Len(iterScores) = 2
    /\ iterScores[1] = <<1, 0>>
    /\ iterScores[2] = <<0, 0>>
    /\ energy.L = 0
    /\ energy.R > 0

C12_EofIsError ==
    \A k \in 1..Len(askLog) : askLog[k].eof => ~askLog[k].ok

\* the bytes of `written` before position n end a line (or n is the start)
AtLineStart(n) == n = 0 \/ written[n] = NL

\* C13: every successful ask that returns a newline-terminated line returns a
\* whole line as the child wrote it: its bytes start where a line of the
\* child's output starts, also after an earlier ask has timed out
C13_WholeLines ==
    \A k \in 1..Len(askLog) :
        (askLog[k].ok /\ ~askLog[k].eof) =>
            /\ AtLineStart(askLog[k].start)
            /\ askLog[k].raw = SubSeq(written, askLog[k].start + 1,
                                      askLog[k].start + Len(askLog[k].raw))

\* the successful asks and the successful says, in call order
OkAsks == SelectSeq(askLog, LAMBDA e : e.ok /\ ~e.eof)
OkSays == SelectSeq(sayLog, LAMBDA e : e.status = "ok")

\* C14: against the echo child, the k-th line asked is exactly the k-th line
\* said: say(s) then ask() returns Ok(s) for every s without a newline
C14_EchoRoundTrip ==
    child = "echo" =>
        \A k \in 1..Len(OkAsks) :
            /\ k <= Len(OkSays)
            /\ OkAsks[k].value = OkSays[k].line

\* the bytes the successful says of a say log put into the pipe
RECURSIVE SaidBytes(_)
SaidBytes(l) ==
    IF l = <<>> THEN <<>>
    ELSE SaidBytes(SubSeq(l, 1, Len(l) - 1)) \o
         (IF l[Len(l)].status = "ok" THEN l[Len(l)].line \o <<NL>> ELSE <<>>)

\* C15: when a say has returned Ok the child's input pipe has received, for
\* every successful say so far, the bytes of its line and one newline, in call
\* order and nothing else, and the write buffer is empty; a say whose pipe is
\* closed returns an error
C15_SayDelivers ==
    /\ delivered = SaidBytes(sayLog)
    /\ \A k \in 1..Len(sayLog) :
          /\ sayLog[k].status = "ok" => sayLog[k].open
          /\ sayLog[k].status = "err" <=> ~sayLog[k].open
    /\ (say_state = "idle" /\ sayLog # <<>> /\ sayLog[Len(sayLog)].status = "ok")
          => writer_buf = <<>>

C15_Witness ==
    /\ Len(sayLog) = 2
    /\ sayLog[1].status = "ok"
    /\ sayLog[1].line = <<"a", " ">>
    /\ sayLog[2].status = "err"
    /\ delivered = <<"a", " ", NL>>

\* C18: an ask never lasts longer than the read timeout, measured from the
\* start of the call, whatever the child does: neither a returned ask nor one
\* still reading has been running for more than DEFAULT_TIMEOUT
C18_AskBounded ==
    /\ ask_state = "reading" => ask_elapsed <= DEFAULT_TIMEOUT
    /\ \A k \in 1..Len(askLog) : askLog[k].elapsed <= DEFAULT_TIMEOUT

\* ----------------------------------------------------- test-player claims
\* the literal a variant parses as the defecting decision
DefectLiteral == IF game = "dilemma" THEN DEFECT ELSE BETRAY

\* left is a tit-for-tat player starting with the cooperate literal, right one
\* starting with the defect literal
TitForTatPair ==
    /\ actor["L"].kind = "tit_for_tat" /\ actor["L"].first = COOPERATE
    /\ actor["R"].kind = "tit_for_tat" /\ actor["R"].first = DefectLiteral

RoundOver == pc \in {"done", "panicked"}

\* C16: with the tit-for-tat pair (cooperate, defect) a round of an even
\* number n of iterations returns Ok with two equal totals, each n/2 times
\* the betrayer reward; for new(1, 10, 5) and n = 2 that is Ok((10, 10))
C16_TitForTat ==
    (RoundOver /\ TitForTatPair /\ iters % 2 = 0) =>
        LET half == [j \in 1..(iters \div 2) |->
                        <<payoff.betrayer_reward, payoff.betrayer_reward>>]
        IN  /\ result.tag = "Ok"
            /\ IsExactSum(result.score[1], half, 1)
            /\ IsExactSum(result.score[2], half, 2)

\* the case of the test: new(1, 10, 5) over 2 iterations returns Ok((10, 10))
TitForTatTestCase ==
    (RoundOver /\ TitForTatPair /\ payoff = DefaultPayoff /\ iters = 2) =>
        result = [tag |-> "Ok", score |-> <<10, 10>>]

\* while no total leaves the range of Score the totals are n/2 times the reward
TitForTatInRange ==
    (RoundOver /\ TitForTatPair /\ payoff = DefaultPayoff /\ iters % 2 = 0) =>
        result = [tag |-> "Ok", score |-> <<(iters \div 2) * 10, (iters \div 2) * 10>>]

\* left is scripted to answer COOPERATE to every ask, right to answer DEFECT
ScriptedPair ==
    /\ actor["L"].kind = "scripted" /\ actor["L"].first = COOPERATE
    /\ actor["R"].kind = "scripted" /\ actor["R"].first = DEFECT

ScriptedCase ==
    /\ game = "dilemma"
    /\ RoundOver
    /\ ScriptedPair
    /\ payoff = DefaultPayoff
    /\ iters = 2

\* C17 as stated: left always COOPERATE, right always DEFECT, 2 iterations
\* with payoffs (1, 10, 5): the final scores are (10, 10)
C17_Stated ==
    ScriptedCase => result = [tag |-> "Ok", score |-> <<10, 10>>]

\* C17 amended: left always COOPERATE, right always DEFECT, 2 iterations with
\* payoffs (1, 10, 5): both iterations return (0, 10) and the final scores
\* are (0, 20)
C17_AlwaysCooperateAlwaysDefect ==
    ScriptedCase =>
        /\ iterScores = <<<<0, 10>>, <<0, 10>>>>
        /\ result = [tag |-> "Ok", score |-> <<0, 20>>]

C17_Witness ==
    /\ ScriptedCase
    /\ result.tag = "Ok"
    /\ Len(log) = 10

\* ------------------------------------------------------------ main claims
\* C19: main exits 0 exactly on success, having printed the two final scores
\* separated by a space; it exits with one status on a left-attributed
\* failure, another on a right-attributed failure and a third when a child
\* could not be launched; the four statuses are pairwise distinct, and no ask
\* or say is issued before both children are launched
C19_ExitStatus ==
    /\ \A a \in DOMAIN ExitStatusOf, b \in DOMAIN ExitStatusOf :
          a # b => ExitStatusOf[a] # ExitStatusOf[b]
    /\ \A a \in DOMAIN ExitStatusOf : a # "Ok" <=> ExitStatusOf[a] # 0
    /\ mpc = "exited" =>
          /\ exit_status = ExitStatusOf.Ok <=> result.tag = "Ok"
          /\ exit_status = ExitStatusOf.ErrorLeft <=> result.tag = "ErrorLeft"
          /\ exit_status = ExitStatusOf.ErrorRight <=> result.tag = "ErrorRight"
          /\ exit_status = ExitStatusOf.Launch <=> launched # Sides
          /\ result.tag = "Ok" <=>
                (/\ printed # <<>>
                 /\ printed = FmtI32(result.score[1]) \o <<" ">> \o FmtI32(result.score[2]))
    /\ launched # Sides => (log = <<>> /\ pending = {} /\ pc = "not_called")
    /\ mpc # "exited" => (exit_status = NoExit /\ printed = <<>>)

C19_Witness ==
    /\ mpc = "exited"
    /\ exit_status = 0
    /\ game = "dilemma"
    /\ printed = <<"1", "0", " ", "0">>

\* the other three ways main ends
C19_WitnessLaunch == mpc = "exited" /\ launched = {"L"} /\ exit_status = IO_ERROR_CODE
C19_WitnessLeft == mpc = "exited" /\ result.tag = "ErrorLeft" /\ exit_status = 1
C19_WitnessRight == mpc = "exited" /\ result.tag = "ErrorRight" /\ exit_status = 2

\* ----------------------------------------------------- variant comparison
\* the calls of a run with DEFECT and BETRAY exchanged in every line
RenameLog(l) == [k \in 1..Len(l) |-> [l[k] EXCEPT !.line = SwapLiteral(@)]]

SecondOver == phase = 2 /\ pc = "done"

SpentNow(s) == IF s = "L" THEN l_spent ELSE r_spent

\* an iteration of Tug of War has completed and the next pull has not been
\* processed: l_spent and r_spent are the amounts of that iteration
IterationCompleted ==
    /\ game = "tug"
    /\ Len(iterScores) >= 1
    /\ \/ pc = "done" /\ result.tag = "Ok"
       \/ pc = "ask_left" /\ pending # {}

\* the energy `side` had when the iteration that has completed began
EnergyBefore(s) == energy[s] + SpentNow(s)

\* C21 as stated: after every completed iteration each side's remaining
\* energy is strictly less than before that iteration
C21_Stated ==
    IterationCompleted => \A s \in Sides : energy[s] < EnergyBefore(s)

\* C21 amended: in an iteration each side's energy is assigned once, by that
\* side's pull, which subtracts the amount spent; the amount may be 0, so
\* after a completed iteration the energy is less than or equal to the energy
\* before it, and no other step changes it
C21_EnergyDecreasedBySpent ==
    /\ [](IterationCompleted =>
            \A s \in Sides :
                /\ SpentNow(s) >= 0
                /\ energy[s] <= EnergyBefore(s)
                /\ EnergyBefore(s) <= start_energy)
    /\ [][(game = "tug" /\ pc # "start") =>
            /\ (pc = "ask_left" /\ pc' = "ask_right") =>
                  (energy'.L = energy.L - l_spent' /\ energy'.R = energy.R)
            /\ (pc = "ask_right" /\ pc' = "notify_left") =>
                  (energy'.R = energy.R - r_spent' /\ energy'.L = energy.L
                   /\ l_spent' = l_spent)
            /\ ~(pc = "ask_left" /\ pc' = "ask_right")
                  /\ ~(pc = "ask_right" /\ pc' = "notify_left") =>
                  (energy' = energy /\ (pc' # "done" => (l_spent' = l_spent /\ r_spent' = r_spent)))]_vars

\* C21 witness: an iteration in which the left side spent 0 and kept its
\* energy while the right side spent 1
C21_Witness ==
    /\ IterationCompleted
    /\ start_energy = 2
    /\ Len(iterScores) = 1
    /\ l_spent = 0 /\ energy.L = 2
    /\ r_spent = 1 /\ energy.R = 1

\* ------------------------------------------------------------ termination
\* round has ended: it returned, or it panicked
RoundEnded == pc \in {"done", "panicked"}

\* C22: round makes at most n iterations and, when it ends, has produced
\* exactly one outcome: a score pair after exactly n completed iterations, or
\* a failure tagged left or right; no outcome exists before the end
C22_OneOutcome ==
    /\ i <= iters
    /\ Len(iterScores) <= iters
    /\ RoundEnded <=> result.tag # "None"
    /\ RoundEnded => result.tag \in {"Ok", "ErrorLeft", "ErrorRight"}
    /\ result.tag = "Ok" => (Len(iterScores) = iters /\ Len(result.score) = 2)
    /\ result.tag \in {"ErrorLeft", "ErrorRight"} => result.score = <<>>

\* when every call returns, round ends
RoundTerminates == <>RoundEnded

\* apart from a panic on overflow, the outcome is one of the two kinds
OneOutcomeUnlessPanic ==
    /\ i <= iters
    /\ Len(iterScores) <= iters
    /\ RoundEnded <=> result.tag # "None"
    /\ (RoundEnded /\ pc # "panicked") => result.tag \in {"Ok", "ErrorLeft", "ErrorRight"}
    /\ result.tag = "Ok" => (Len(iterScores) = iters /\ Len(result.score) = 2)
    /\ result.tag \in {"ErrorLeft", "ErrorRight"} => result.score = <<>>

\* ----------------------------------------------------------- conservation
AskPc(side) == IF side = "L" THEN "ask_left" ELSE "ask_right"

\* the call logged at index k is a reply of `side` that pull has accepted as
\* an amount spent: it parsed, the referee has processed it, and round went on
Accepted(k, side) ==
    /\ log[k].op = "ask" /\ log[k].side = side /\ log[k].ok
    /\ ParseU32(log[k].line) # ParseErr
    /\ k < Len(log) \/ pc \notin {AskPc(side), "done"}

\* the sum of the amounts `side` has been accepted as spending in log[1..k]
RECURSIVE AcceptedSpent(_, _)
AcceptedSpent(k, side) ==
    IF k = 0 THEN 0
    ELSE (IF Accepted(k, side) THEN ParseU32(log[k].line) ELSE 0)
         + AcceptedSpent(k - 1, side)

\* C23: for each side the remaining energy plus the amounts it has been
\* accepted as spending so far is the starting energy; so the total spent
\* never exceeds the starting energy, and an amount accepted when the side
\* had no energy left is 0
C23_Conservation ==
    (game = "tug" /\ pc # "start") =>
        \A s \in Sides :
            /\ energy[s] + AcceptedSpent(Len(log), s) = start_energy
            /\ AcceptedSpent(Len(log), s) <= start_energy
            /\ \A k \in 1..Len(log) :
                  (Accepted(k, s) /\ AcceptedSpent(k - 1, s) = start_energy)
                      => ParseU32(log[k].line) = 0

\* C23 witness: the left side spent all its energy in the first iteration
\* and was accepted as spending 0 in the second
C23_Witness ==
    /\ game = "tug"
    /\ result.tag = "Ok"
    /\ start_energy = 2
    /\ iters = 2
    /\ energy.L = 0
    /\ ParseU32(ReplyLine(0, "L")) = 2
    /\ ParseU32(ReplyLine(1, "L")) = 0
    /\ energy.R = 1

\* --------------------------------------------------------------- overflow
\* the running totals after j iterations are the exact sums of the first j
\* per-iteration pairs
ExactTotals(total, j) ==
    /\ IsExactSum(total[1], SubSeq(iterScores, 1, j), 1)
    /\ IsExactSum(total[2], SubSeq(iterScores, 1, j), 2)

\* C24: score accumulation never overflows Score: round never panics on an
\* addition, each running total is the exact sum of the iterations completed
\* so far, and the returned totals are the exact sums
C24_NoOverflow ==
    /\ pc # "panicked"
    /\ InLoop => ExactTotals(score, Len(iterScores))
    /\ result.tag = "Ok" => ExactTotals(result.score, Len(iterScores))

\* with the payoffs of PrisonerDilemma::default() and in Tug of War the
\* totals of the rounds of the model are exact
NoOverflowAtDefaults ==
    (game = "tug" \/ payoff = DefaultPayoff) => C24_NoOverflow

====
